---- MODULE Spec2Model ----
(***************************************************************************)
(* State-machine model of the device / inventory CRUD managers             *)
(* (app/crud/device_manager.py, app/crud/inventory_manager.py).            *)
(*                                                                         *)
(* The relational store is four tables.  update_device_weight is modelled  *)
(* one store call per step, for two concurrent callers; every other        *)
(* handler issues its store calls in one step and leaves its response in   *)
(* `last` until the next step.  Any store call may raise (StoreFailure).    *)
(* Timestamps (CreatedAt, UpdatedAt, DateTime) are left out.               *)
(*                                                                         *)
(* Weights are even numbers and unit weights are 1 or 2, so that the       *)
(* float division delta / UnitWeight of the stock calculation is exact.    *)
(***************************************************************************)
EXTENDS Integers, Sequences, FiniteSets, TLC

VARIABLES
    devices,         \* table Device: DeviceId -> row
    inventory,       \* table Inventory: InventoryId -> row
    weightTracking,  \* table WeightTracking: rows in insertion order
    activityLog,     \* table ActivityLog: rows in insertion order
    pc,              \* position of each update_device_weight caller
    req,             \* the caller's arguments (device_id, new_weight)
    previous_weight, \* the caller's local previous_weight
    result,          \* the caller's response envelope
    held,            \* connections a caller acquired and has not released
    last,            \* what the single-step handler of the latest step returned
    calls,           \* number of mutating calls and clock advances started
    ghost,           \* history of each caller's current call (not program state)
    now              \* datetime.utcnow(), in whole days

vars == <<devices, inventory, weightTracking, activityLog, pc, req,
          previous_weight, result, held, last, calls, ghost, now>>

(*************************** bounds and domains ****************************)

\* mutating calls in one behaviour
MaxCalls == 2

\* Python None / SQL NULL in a nullable column
NULL == -1

Callers == {"c1", "c2"}

\* device ids that weight-update requests name; no device has id 9
ReqDeviceIds == {1, 2, 9}

\* weight readings that requests carry
Weights == {0, 2}

DeviceStatuses == {"Online", "Offline", "Unlinked", "LowBattery"}

Max(a, b) == IF a >= b THEN a ELSE b

(***************************** store gateway *******************************)

\* DatabaseManager.read(Model, {key: id}): the rows whose key equals id
DbRead(table, id) == IF id \in DOMAIN table THEN <<table[id]>> ELSE <<>>

\* one row with the given fields overwritten (only the fields supplied)
Merge(row, fields) ==
    [f \in DOMAIN row |-> IF f \in DOMAIN fields THEN fields[f] ELSE row[f]]

\* DatabaseManager.update(Model, {key: id}, fields): the table afterwards
DbUpdate(table, id, fields) ==
    [k \in DOMAIN table |-> IF k = id THEN Merge(table[k], fields) ELSE table[k]]

\* DatabaseManager.delete(Model, {key: id}): the table afterwards
DbDelete(table, id) == [k \in DOMAIN table \ {id} |-> table[k]]

\* rows affected by an update or delete keyed by id
RowCount(table, id) == IF id \in DOMAIN table THEN 1 ELSE 0

\* number of rows of a history table that belong to a device
RECURSIVE CountFor(_, _)
CountFor(rows, d) ==
    IF rows = <<>> THEN 0
    ELSE (IF Head(rows).DeviceId = d THEN 1 ELSE 0) + CountFor(Tail(rows), d)

(************************ stock calculation engine *************************)

\* unitsConsumed = (LastReading - Weight) / UnitWeight
UnitsConsumed(device, row) ==
    (device.LastReading - device.Weight) \div row.UnitWeight

\* variant: strict comparisons, so a tie falls to the milder status
ClassifyLoose(stock, stockOut, threshold) ==
    IF stock < stockOut THEN "OutOfStock"
    ELSE IF stock < threshold THEN "LowStock"
    ELSE "Normal"

\* status classification, evaluated in order
Classify(stock, stockOut, threshold) ==
    IF stock <= stockOut THEN "OutOfStock"
    ELSE IF stock <= threshold THEN "LowStock"
    ELSE "Normal"

\* variant: no clamp at zero
NewStockUnclamped(previousStock, units) == previousStock - units

\* new Stock = max(0, previousStock - unitsConsumed)
NewStock(previousStock, units) == Max(0, previousStock - units)

\* variant: a row that is not convertible is written as out of stock
RecalcRowZeroing(device, row) ==
    IF row.UnitWeight > 0
    THEN LET units == UnitsConsumed(device, row)
             stock == NewStock(row.Stock, units)
         IN  [row EXCEPT !.Stock = stock,
                         !.Consumption = row.Consumption + Max(0, units),
                         !.Status = Classify(stock, row.StockOut, row.Threshold)]
    ELSE [row EXCEPT !.Stock = 0, !.Status = "OutOfStock"]

\* one inventory row recomputed from the device's Weight and LastReading;
\* a row whose UnitWeight is absent or zero is not convertible and is skipped
RecalcRow(device, row) ==
    IF row.UnitWeight > 0
    THEN LET units == UnitsConsumed(device, row)
             stock == NewStock(row.Stock, units)
         IN  [row EXCEPT !.Stock = stock,
                         !.Consumption = row.Consumption + Max(0, units),
                         !.Status = Classify(stock, row.StockOut, row.Threshold)]
    ELSE row

\* StockCalculatorService.update_stock_by_device: every inventory row whose
\* DeviceId matches is recomputed; no matching row, or no device, is a no-op
UpdateStockByDevice(devs, inv, device_id) ==
    IF device_id \notin DOMAIN devs THEN inv
    ELSE [i \in DOMAIN inv |->
            IF inv[i].DeviceId = device_id
            THEN RecalcRow(devs[device_id], inv[i])
            ELSE inv[i]]

(***************************** response envelopes **************************)

None == <<>>
Some(x) == <<x>>

Envelope(success, message, data) ==
    [success |-> success, message |-> message, data |-> data]

Pending == Envelope(FALSE, "pending", None)

\* what a single-step handler leaves behind: its name and arguments, whether
\* its store call or its activity-log write raised, the connections it left
\* open, and its response
Response(op, id, arg, failed, logFailed, open, res) ==
    [op |-> op, id |-> id, arg |-> arg, failed |-> failed,
     logFailed |-> logFailed, held |-> open, result |-> res]

NoCall == Response("none", NULL, NULL, FALSE, FALSE, {}, Pending)

(******************************* initial state *****************************)

Device(id, name, weight, status) ==
    [DeviceId |-> id, DeviceName |-> name, Weight |-> weight, LastReading |-> weight,
     Battery |-> 100, Latitude |-> 0, Longitude |-> 0,
     LocationName |-> "A", Status |-> status]

InventoryRow(id, device_id, unitWeight, stock, threshold, stockOut) ==
    [InventoryId |-> id, DeviceId |-> device_id, UnitWeight |-> unitWeight, Stock |-> stock,
     Threshold |-> threshold, StockOut |-> stockOut, Consumption |-> 0,
     Status |-> "Normal"]

InitDevices ==
    (1 :> Device(1, "scale-1", 4, "Online")) @@
    (2 :> Device(2, "scale-2", 2, "Online")) @@
    (3 :> Device(3, "scale-3", 0, "Unknown"))

NoReq == [device_id |-> NULL, new_weight |-> NULL]

\* w0: the stored Weight when the call started; replaced: the stored Weight its
\* device write overwrote; wtRows, alRows: rows the call appended for its device
NoGhost == [w0 |-> NULL, replaced |-> NULL, overlapped |-> FALSE, wtRows |-> 0,
            alRows |-> 0, logFailed |-> FALSE, failed |-> "none"]

Init ==
    /\ devices = InitDevices
    /\ \E uw \in {NULL, 0} :
         inventory = (1 :> InventoryRow(1, 1, 2, 3, 2, 1)) @@
                     (2 :> InventoryRow(2, 1, 1, 3, 1, 1)) @@
                     (3 :> InventoryRow(3, 1, 1, 5, 4, 3)) @@
                     (4 :> InventoryRow(4, 1, 2, 5, 3, 2)) @@
                     (5 :> InventoryRow(5, 2, uw, 3, 1, 0))
    /\ weightTracking = <<>>
    /\ activityLog = <<>>
    /\ pc = [c \in Callers |-> "idle"]
    /\ req = [c \in Callers |-> NoReq]
    /\ previous_weight = [c \in Callers |-> NULL]
    /\ result = [c \in Callers |-> Pending]
    /\ held = [c \in Callers |-> {}]
    /\ last = NoCall
    /\ calls = 0
    /\ now = 0
    /\ ghost = [c \in Callers |-> NoGhost]

(*************************** history bookkeeping ***************************)

Active(c) == pc[c] \notin {"idle", "done"}

\* a step of caller c: the rows it appended for its device are counted from the
\* tables, and every other call in progress is marked as overlapped
Account(c, logFailed, failed) ==
    ghost' = [x \in Callers |->
        IF x = c
        THEN [ghost[c] EXCEPT
                !.wtRows = @ + CountFor(weightTracking', req[c].device_id)
                             - CountFor(weightTracking, req[c].device_id),
                !.alRows = @ + CountFor(activityLog', req[c].device_id)
                             - CountFor(activityLog, req[c].device_id),
                !.replaced = IF /\ pc[c] = "write"
                                /\ failed = "none"
                                /\ req[c].device_id \in DOMAIN devices
                             THEN devices[req[c].device_id].Weight ELSE @,
                !.logFailed = @ \/ logFailed,
                !.failed = IF failed = "none" THEN @ ELSE failed]
        ELSE IF Active(x) THEN [ghost[x] EXCEPT !.overlapped = TRUE]
        ELSE ghost[x]]

\* the locals f of the calls in progress, those of finished calls forgotten
Keep(f, blank) == [x \in Callers |-> IF Active(x) THEN f[x] ELSE blank]

\* a writing single-step handler ran: every call in progress is overlapped by
\* it, and the locals of finished calls are forgotten
AccountOthers ==
    /\ ghost' = [x \in Callers |->
          IF Active(x) THEN [ghost[x] EXCEPT !.overlapped = TRUE] ELSE NoGhost]
    /\ pc' = Keep(pc, "idle")
    /\ req' = Keep(req, NoReq)
    /\ previous_weight' = Keep(previous_weight, NULL)
    /\ result' = Keep(result, Pending)
    /\ held' = Keep(held, {})

(************************** update_device_weight ***************************)

\* variant: LastReading takes the new reading
WeightUpdateFieldsNoHistory(previous, new_weight) ==
    [LastReading |-> new_weight, Weight |-> new_weight]

\* the field set of the device write
WeightUpdateFields(previous, new_weight) ==
    [LastReading |-> previous, Weight |-> new_weight]

\* variant: compare-and-swap on the Weight that was read
WriteDeviceRowGuarded(table, device_id, previous, new_weight) ==
    IF device_id \in DOMAIN table /\ table[device_id].Weight # previous
    THEN table
    ELSE DbUpdate(table, device_id, WeightUpdateFields(previous, new_weight))

\* the device write: an unconditional update keyed by DeviceId alone
WriteDeviceRow(table, device_id, previous, new_weight) ==
    DbUpdate(table, device_id, WeightUpdateFields(previous, new_weight))

\* variant: the row is not persisted
WeightTrackerCreateNothing(table, device_id, weight) == table

\* WeightTrackingManager.create: one row appended
WeightTrackerCreate(table, device_id, weight) ==
    Append(table, [DeviceId |-> device_id, Weight |-> weight,
                   DateTime |-> now])

\* ActivityLogManager.create: one row appended
ActivityLoggerCreate(table, device_id, event) ==
    Append(table, [DeviceId |-> device_id, Event |-> event,
                   DateTime |-> now])

\* variant: no try / except around the write
LogActivityPropagates(raised) == raised

\* _log_activity: does an exception of activity_logger.create leave it?
LogActivityRaises(raised) == FALSE

WeightResponse(device_id, previous, new_weight) ==
    Envelope(TRUE, "Device weight updated, logged, and stock recalculated",
             Some([DeviceId |-> device_id, LastReading |-> previous,
                   Weight |-> new_weight]))

\* variant: no except clause, the exception leaves the handler
WeightErrorPropagated == Envelope(FALSE, "Internal Server Error", None)

WeightError == Envelope(FALSE, "Error updating device weight", None)

DeviceNotFound == Envelope(FALSE, "Device not found", None)

\* a caller slot is free when no call is in progress in it; a new call takes
\* the first free slot, so the second slot only holds overlapping calls
Free(c) == /\ ~Active(c)
           /\ c = "c2" => Active("c1")

\* the locals of caller c set to v, the locals of finished calls forgotten
Locals(f, c, v, blank) ==
    [x \in Callers |-> IF x = c THEN v ELSE IF Active(x) THEN f[x] ELSE blank]

\* connect and fetch the device; not found and a failed read end the call
BeginUpdateWeight(c, d, w) ==
    /\ Free(c)
    /\ calls < MaxCalls
    /\ calls' = calls + 1
    /\ req' = Locals(req, c, [device_id |-> d, new_weight |-> w], NoReq)
    /\ UNCHANGED <<now, devices, inventory, weightTracking, activityLog>>
    /\ last' = NoCall
    /\ \E raised \in BOOLEAN :
         LET found == DbRead(devices, d)
             ends  == raised \/ found = <<>>
             start == [NoGhost EXCEPT
                         !.w0 = IF d \in DOMAIN devices
                                THEN devices[d].Weight ELSE NULL,
                         !.overlapped = \E x \in Callers \ {c} : Active(x),
                         !.failed = IF raised THEN "read" ELSE "none"]
         IN  /\ ghost' = [x \in Callers |->
                    IF x = c THEN start
                    ELSE IF Active(x) THEN [ghost[x] EXCEPT !.overlapped = TRUE]
                    ELSE NoGhost]
             /\ pc' = Locals(pc, c, IF ends THEN "done" ELSE "write", "idle")
             /\ result' = Locals(result, c,
                                 IF raised THEN WeightError
                                 ELSE IF found = <<>> THEN DeviceNotFound
                                 ELSE Pending, Pending)
             /\ previous_weight' = Locals(previous_weight, c,
                                          IF ends THEN NULL ELSE found[1].Weight,
                                          NULL)
             /\ held' = Locals(held, c,
                               IF ends THEN {} ELSE {"device_manager"}, {})

\* the except clause and the finally clause: failure envelope, disconnect
FailCall(c) ==
    /\ pc' = [pc EXCEPT ![c] = "done"]
    /\ result' = [result EXCEPT ![c] = WeightError]

\* UPDATE DEVICE
WriteDevice(c) ==
    /\ pc[c] = "write"
    /\ UNCHANGED <<now, inventory, weightTracking, activityLog, req,
                   previous_weight, calls>>
    /\ last' = NoCall
    /\ \E raised \in BOOLEAN :
         IF raised
         THEN /\ FailCall(c)
              /\ held' = [held EXCEPT ![c] = @ \ {"device_manager"}]
              /\ UNCHANGED devices
              /\ Account(c, FALSE, "write")
         ELSE /\ devices' = WriteDeviceRow(devices, req[c].device_id,
                                           previous_weight[c], req[c].new_weight)
              /\ pc' = [pc EXCEPT ![c] = "history"]
              /\ UNCHANGED <<result, held>>
              /\ Account(c, FALSE, "none")

\* SAVE WEIGHT HISTORY: weight_tracker.create connects, creates, disconnects
SaveWeightHistory(c) ==
    /\ pc[c] = "history"
    /\ UNCHANGED <<now, devices, inventory, activityLog, req, previous_weight,
                   calls>>
    /\ last' = NoCall
    /\ \E raised \in BOOLEAN :
         IF raised
         THEN /\ FailCall(c)
              /\ held' = [held EXCEPT ![c] =
                            (@ \cup {"weight_tracker"}) \ {"device_manager"}]
              /\ UNCHANGED weightTracking
              /\ Account(c, FALSE, "history")
         ELSE /\ weightTracking' = WeightTrackerCreate(weightTracking,
                                        req[c].device_id, req[c].new_weight)
              /\ pc' = [pc EXCEPT ![c] = "log"]
              /\ UNCHANGED <<result, held>>
              /\ Account(c, FALSE, "none")

\* LOG ACTIVITY: _log_activity around activity_logger.create
LogActivity(c) ==
    /\ pc[c] = "log"
    /\ UNCHANGED <<now, devices, inventory, weightTracking, req, previous_weight,
                   calls>>
    /\ last' = NoCall
    /\ \E raised \in BOOLEAN :
         /\ activityLog' = IF raised THEN activityLog
                           ELSE ActivityLoggerCreate(activityLog,
                                    req[c].device_id, "Weight updated")
         /\ IF LogActivityRaises(raised)
            THEN /\ FailCall(c)
                 /\ held' = [held EXCEPT ![c] =
                               (@ \cup {"activity_logger"}) \ {"device_manager"}]
            ELSE /\ pc' = [pc EXCEPT ![c] = "recalc"]
                 /\ held' = [held EXCEPT ![c] =
                               IF raised THEN @ \cup {"activity_logger"} ELSE @]
                 /\ UNCHANGED result
         /\ Account(c, raised, "none")

\* TRIGGER STOCK RECALC, then the success response; finally disconnect
RecalcStock(c) ==
    /\ pc[c] = "recalc"
    /\ UNCHANGED <<now, devices, weightTracking, activityLog, req, previous_weight,
                   calls>>
    /\ last' = NoCall
    /\ \E raised \in BOOLEAN :
         IF raised
         THEN /\ FailCall(c)
              /\ UNCHANGED inventory
              /\ Account(c, FALSE, "recalc")
         ELSE /\ inventory' = UpdateStockByDevice(devices, inventory,
                                                  req[c].device_id)
              /\ pc' = [pc EXCEPT ![c] = "done"]
              /\ result' = [result EXCEPT ![c] =
                    WeightResponse(req[c].device_id, previous_weight[c],
                                   req[c].new_weight)]
              /\ Account(c, FALSE, "none")
    /\ held' = [held EXCEPT ![c] = @ \ {"device_manager"}]

UpdateDeviceWeight ==
    \E c \in Callers :
        \/ \E d \in ReqDeviceIds, w \in Weights : BeginUpdateWeight(c, d, w)
        \/ WriteDevice(c)
        \/ SaveWeightHistory(c)
        \/ LogActivity(c)
        \/ RecalcStock(c)

(*************************** single-step handlers **************************)

\* an exception that leaves the handler instead of a response envelope
Exception == Envelope(FALSE, "exception", None)

\* inventory ids that requests name; no inventory row has id 9
ReqInventoryIds == {5, 9}

\* device ids that the single-step handlers' requests name
HandlerDeviceIds == {1, 9}

\* the fields each partial-update request carries
DevicePayload ==
    [update_device   |-> [Status |-> "Offline"],
     update_battery  |-> [Battery |-> 20],
     update_location |-> [Latitude |-> 1, Longitude |-> 1],
     update_tracking |-> [LocationName |-> "B"]]

\* update_battery, update_location and update_tracking log; update_device does not
LogsActivity(op) == op \in {"update_battery", "update_location", "update_tracking"}

\* update_device's response for the rowcount of its update
UpdateDeviceResult(rowcount) ==
    IF rowcount > 0
    THEN Envelope(TRUE, "Device updated successfully",
                  Some([rows_affected |-> rowcount]))
    ELSE DeviceNotFound

\* variant: the activity entry is written whatever update_device reported
ShouldLogAlways(op, res) == LogsActivity(op)

\* if result.get("success"): the activity entry follows a successful update only
ShouldLog(op, res) == LogsActivity(op) /\ res.success

\* update_device, and update_battery / update_location / update_tracking, which
\* delegate to it and log only if it reports success
UpdateDeviceFields(op, d) ==
    /\ calls < MaxCalls
    /\ calls' = calls + 1
    /\ UNCHANGED <<now, inventory, weightTracking>>
    /\ AccountOthers
    /\ \E raised \in BOOLEAN, logRaised \in BOOLEAN :
         LET res  == IF raised THEN Exception
                     ELSE UpdateDeviceResult(RowCount(devices, d))
             logs == ShouldLog(op, res)
         IN  /\ logRaised => logs
             /\ devices' = IF raised THEN devices
                           ELSE DbUpdate(devices, d, DevicePayload[op])
             /\ activityLog' = IF logs /\ ~logRaised
                               THEN ActivityLoggerCreate(activityLog, d, op)
                               ELSE activityLog
             /\ last' = Response(op, d, NULL, raised, logRaised,
                            IF logRaised THEN {"activity_logger"} ELSE {},
                            IF logs /\ LogActivityRaises(logRaised)
                            THEN Exception ELSE res)

\* sync_device: an activity entry and an acknowledgement, no device access
SyncDevice(d) ==
    /\ calls < MaxCalls
    /\ calls' = calls + 1
    /\ UNCHANGED <<now, devices, inventory, weightTracking>>
    /\ AccountOthers
    /\ \E logRaised \in BOOLEAN :
         /\ activityLog' = IF logRaised THEN activityLog
                           ELSE ActivityLoggerCreate(activityLog, d,
                                                     "Device Synched")
         /\ last' = Response("sync_device", d, NULL, FALSE, logRaised,
                        IF logRaised THEN {"activity_logger"} ELSE {},
                        IF LogActivityRaises(logRaised) THEN Exception
                        ELSE Envelope(TRUE, "Device synced successfully",
                                      Some([DeviceId |-> d])))

\* DatabaseManager.read(Model): every row, in key order
RECURSIVE ReadAll(_)
ReadAll(table) ==
    IF DOMAIN table = {} THEN <<>>
    ELSE LET k == CHOOSE x \in DOMAIN table : \A y \in DOMAIN table : x <= y
         IN  <<table[k]>> \o ReadAll([y \in DOMAIN table \ {k} |-> table[y]])

ZeroCount == [s \in DeviceStatuses |-> 0]

\* variant: an unknown Status is counted as Offline
RECURSIVE TallyEveryStatus(_, _)
TallyEveryStatus(rows, count) ==
    IF rows = <<>> THEN count
    ELSE TallyEveryStatus(Tail(rows),
            IF Head(rows).Status \in DOMAIN count
            THEN [count EXCEPT ![Head(rows).Status] = @ + 1]
            ELSE [count EXCEPT !["Offline"] = @ + 1])

\* the status counters: a Status that is not one of the four keys is not counted
RECURSIVE TallyStatus(_, _)
TallyStatus(rows, count) ==
    IF rows = <<>> THEN count
    ELSE TallyStatus(Tail(rows),
            IF Head(rows).Status \in DOMAIN count
            THEN [count EXCEPT ![Head(rows).Status] = @ + 1]
            ELSE count)

\* get_all_devices' data: the four counters and the device list
DeviceListing(rows) ==
    LET count == TallyStatus(rows, ZeroCount)
    IN  [Online |-> count["Online"], Offline |-> count["Offline"],
         Unlinked |-> count["Unlinked"], LowBattery |-> count["LowBattery"],
         Devices |-> rows]

GetAllDevices ==
    /\ UNCHANGED <<now, devices, inventory, weightTracking, activityLog, pc, req,
                   previous_weight, result, held, calls, ghost>>
    /\ \E raised \in BOOLEAN :
         last' = Response("get_all_devices", NULL, NULL, raised, FALSE, {},
                    IF raised
                    THEN Envelope(FALSE, "Error fetching devices", None)
                    ELSE Envelope(TRUE, "Devices fetched successfully",
                                  Some(DeviceListing(ReadAll(devices)))))

InventoryNotFound == Envelope(FALSE, "Inventory not found", None)

\* update_inventory's response for the rowcount of its update
UpdateInventoryResult(rowcount) ==
    IF rowcount > 0
    THEN Envelope(TRUE, "Inventory updated successfully",
                  Some([rows_affected |-> rowcount]))
    ELSE InventoryNotFound

\* update_inventory: the supplied fields written to the row
UpdateInventory(op, i, fields, arg) ==
    /\ calls < MaxCalls
    /\ calls' = calls + 1
    /\ UNCHANGED <<now, devices, weightTracking, activityLog>>
    /\ AccountOthers
    /\ \E raised \in BOOLEAN :
         /\ inventory' = IF raised THEN inventory
                         ELSE DbUpdate(inventory, i, fields)
         /\ last' = Response(op, i, arg, raised, FALSE, {},
                        IF raised THEN Exception
                        ELSE UpdateInventoryResult(RowCount(inventory, i)))

\* DeviceAssign(DeviceId=data.DeviceId)
AssignDeviceFields(d) == [DeviceId |-> d]

\* assign_device: update_inventory with DeviceId alone
AssignDevice(i, d) ==
    UpdateInventory("assign_device", i, AssignDeviceFields(d), d)

\* update_inventory with DeviceId: null, which unassigns the device
ClearDevice(i) ==
    UpdateInventory("update_inventory", i, [DeviceId |-> NULL], NULL)

\* the Stock values update_stock requests carry
StockValues == {0, 1}

\* variant: the status is recomputed from the new Stock
UpdateStockFieldsRecompute(stock) ==
    [Stock |-> stock, Status |-> IF stock <= 0 THEN "OutOfStock" ELSE "LowStock"]

\* StockUpdate(**data.dict())
UpdateStockFields(stock) == [Stock |-> stock]

\* update_stock: update_inventory with Stock alone
UpdateStock(i, stock) ==
    UpdateInventory("update_stock", i, UpdateStockFields(stock), stock)

\* update_inventory with Status: InventoryUpdate carries every column of
\* InventoryBase, Status included
SetInventoryStatus(i) ==
    UpdateInventory("update_inventory(Status)", i, [Status |-> "LowStock"],
                    NULL)

\* Python truthiness of a nullable integer column
Truthy(v) == v # NULL /\ v # 0

\* variant: Weight and LastReading exchanged
DeviceProjectionSwapped(device) ==
    [DeviceId |-> device.DeviceId, DeviceName |-> device.DeviceName,
     LastReading |-> device.Weight, Weight |-> device.LastReading,
     LocationName |-> device.LocationName]

\* the reduced projection of a device embedded in an inventory response
DeviceProjection(device) ==
    [DeviceId |-> device.DeviceId, DeviceName |-> device.DeviceName,
     LastReading |-> device.LastReading, Weight |-> device.Weight,
     LocationName |-> device.LocationName]

\* get_inventory's manual join: the device of a non-null DeviceId, if it exists
EmbeddedDevice(row, devs) ==
    IF Truthy(row.DeviceId)
    THEN LET found == DbRead(devs, row.DeviceId)
         IN  IF found # <<>> THEN Some(DeviceProjection(found[1])) ELSE None
    ELSE None

\* get_inventory's response_data
InventoryResponse(row, devs) ==
    [InventoryId |-> row.InventoryId, Device |-> EmbeddedDevice(row, devs),
     UnitWeight |-> row.UnitWeight, Stock |-> row.Stock,
     Threshold |-> row.Threshold, StockOut |-> row.StockOut,
     Consumption |-> row.Consumption, Status |-> row.Status]

GetInventory(i) ==
    /\ UNCHANGED <<now, devices, inventory, weightTracking, activityLog, pc, req,
                   previous_weight, result, held, calls, ghost>>
    /\ \E raised \in BOOLEAN :
         LET found == DbRead(inventory, i)
         IN  last' = Response("get_inventory", i, NULL, raised, FALSE, {},
                        IF raised
                        THEN Envelope(FALSE, "Error fetching inventory", None)
                        ELSE IF found = <<>> THEN InventoryNotFound
                        ELSE Envelope(TRUE, "Inventory fetched successfully",
                                      Some(InventoryResponse(found[1], devices))))

\* delete_device: the device row removed, no other table touched
DeleteDevice(d) ==
    /\ calls < MaxCalls
    /\ calls' = calls + 1
    /\ UNCHANGED <<now, inventory, weightTracking, activityLog>>
    /\ AccountOthers
    /\ \E raised \in BOOLEAN :
         /\ devices' = IF raised THEN devices ELSE DbDelete(devices, d)
         /\ last' = Response("delete_device", d, NULL, raised, FALSE, {},
                        IF raised THEN Exception
                        ELSE IF RowCount(devices, d) > 0
                        THEN Envelope(TRUE, "Device deleted successfully",
                                      Some([rows_affected |-> 1]))
                        ELSE DeviceNotFound)

\* device_map.get(inv.DeviceId)
DeviceMapGet(devs, device_id) ==
    IF device_id \in DOMAIN devs THEN Some(devs[device_id]) ELSE None

\* variant: a row counts as linked when its DeviceId column is set
IsLinkedByColumn(row, device) == Truthy(row.DeviceId)

\* if device: linked_devices += 1
IsLinked(row, device) == device # None

\* one element of get_all_inventory's inventory_list
InventoryEntry(row, devs) ==
    LET device == DeviceMapGet(devs, row.DeviceId)
    IN  [InventoryId |-> row.InventoryId,
         Device |-> IF device # None THEN Some(DeviceProjection(device[1]))
                    ELSE None,
         UnitWeight |-> row.UnitWeight,
         Stock |-> IF Truthy(row.Stock) THEN row.Stock ELSE 0,
         Threshold |-> row.Threshold, StockOut |-> row.StockOut,
         Consumption |-> row.Consumption, Status |-> row.Status]

\* get_all_inventory's loop over the rows read
RECURSIVE InventoryListing(_, _, _)
InventoryListing(rows, devs, acc) ==
    IF rows = <<>> THEN acc
    ELSE LET inv    == Head(rows)
             device == DeviceMapGet(devs, inv.DeviceId)
         IN  InventoryListing(Tail(rows), devs,
               [TotalItems |-> acc.TotalItems + 1,
                LowStock |-> acc.LowStock +
                    (IF inv.Status = "LowStock" THEN 1 ELSE 0),
                OutOfStock |-> acc.OutOfStock +
                    (IF inv.Status = "OutOfStock" THEN 1 ELSE 0),
                LinkedDevices |-> acc.LinkedDevices +
                    (IF IsLinked(inv, device) THEN 1 ELSE 0),
                InventoryData |-> Append(acc.InventoryData,
                                         InventoryEntry(inv, devs))])

GetAllInventory ==
    /\ UNCHANGED <<now, devices, inventory, weightTracking, activityLog, pc, req,
                   previous_weight, result, held, calls, ghost>>
    /\ \E raised \in BOOLEAN :
         last' = Response("get_all_inventory", NULL, NULL, raised, FALSE, {},
                    IF raised
                    THEN Envelope(FALSE, "Error fetching inventory", None)
                    ELSE Envelope(TRUE, "Inventory fetched successfully",
                           Some(InventoryListing(ReadAll(inventory), devices,
                                  [TotalItems |-> 0, LowStock |-> 0,
                                   OutOfStock |-> 0, LinkedDevices |-> 0,
                                   InventoryData |-> <<>>]))))

Handlers ==
    \/ \E op \in DOMAIN DevicePayload, d \in HandlerDeviceIds :
            UpdateDeviceFields(op, d)
    \/ \E d \in HandlerDeviceIds : SyncDevice(d)
    \/ GetAllDevices
    \/ \E i \in ReqInventoryIds, d \in HandlerDeviceIds : AssignDevice(i, d)
    \/ \E i \in ReqInventoryIds : ClearDevice(i)
    \/ \E i \in ReqInventoryIds : GetInventory(i)

\* one update_device_weight call at a time
SingleWeightUpdate ==
    \/ \E d \in HandlerDeviceIds, w \in Weights : BeginUpdateWeight("c1", d, w)
    \/ WriteDevice("c1")
    \/ SaveWeightHistory("c1")
    \/ LogActivity("c1")
    \/ RecalcStock("c1")

NextServices == Handlers \/ SingleWeightUpdate

\* every handler, with one update_device_weight call in progress at most
SpecServices == Init /\ [][NextServices]_vars

\* the inventory routes and delete_device
InventoryHandlers ==
    \/ \E i \in ReqInventoryIds, d \in HandlerDeviceIds : AssignDevice(i, d)
    \/ \E i \in ReqInventoryIds : ClearDevice(i)
    \/ \E i \in ReqInventoryIds, s \in StockValues : UpdateStock(i, s)
    \/ \E i \in ReqInventoryIds : SetInventoryStatus(i)
    \/ \E i \in ReqInventoryIds : GetInventory(i)
    \/ GetAllInventory
    \/ \E d \in HandlerDeviceIds : DeleteDevice(d)

NextInventory == InventoryHandlers \/ SingleWeightUpdate

\* the inventory handlers, with one update_device_weight call in progress at
\* most
SpecInventory == Init /\ [][NextInventory]_vars

(********************* weight and activity history *************************)

\* device ids that history requests name
HistoryDeviceIds == {1, 2}

\* filter_by: "all" stands for no filter
FilterNames == {"all", "day", "week", "month"}

\* delta = {"day": 1, "week": 7, "month": 30}.get(filter_by)
FilterDays == [day |-> 1, week |-> 7, month |-> 30]

\* DatabaseManager.read(Model, {"DeviceId": device_id}): rows in stored order
ReadByDevice(rows, device_id) ==
    SelectSeq(rows, LAMBDA r : r.DeviceId = device_id)

\* DatabaseManager.delete(Model, filters): the rows that match every filter go
DbDeleteWhere(rows, filters) ==
    SelectSeq(rows, LAMBDA r : \E f \in DOMAIN filters : r[f] # filters[f])

\* variant: no filter is passed to the delete
DeleteByDeviceNoFilter(device_id) == [f \in {} |-> device_id]

\* delete_by_device's filters: {"DeviceId": device_id}
DeleteByDeviceFilter(device_id) == [DeviceId |-> device_id]

\* variant: a row leaves the window on the day it reaches the window's age
InWindowStrict(row, at, delta) == row.DateTime > at - delta

\* d.DateTime >= now - timedelta(days=delta)
InWindow(row, at, delta) == row.DateTime >= at - delta

\* the rows a filter keeps: every row without a known filter
FilterHistory(rows, filter_by, at) ==
    IF filter_by \in DOMAIN FilterDays
    THEN SelectSeq(rows, LAMBDA r : InWindow(r, at, FilterDays[filter_by]))
    ELSE rows

\* data.sort(key=DateTime, reverse=True): newest first, equal keys keep their
\* order
RECURSIVE SortNewestFirst(_)
SortNewestFirst(rows) ==
    IF rows = <<>> THEN <<>>
    ELSE LET k == CHOOSE i \in DOMAIN rows :
                     \A j \in DOMAIN rows :
                         \/ rows[i].DateTime > rows[j].DateTime
                         \/ rows[i].DateTime = rows[j].DateTime /\ i <= j
         IN  <<rows[k]>> \o
             SortNewestFirst(SubSeq(rows, 1, k - 1) \o
                             SubSeq(rows, k + 1, Len(rows)))

\* WeightTrackingManager.get / ActivityLogManager.get
HistoryGet(rows, device_id, filter_by, at) ==
    SortNewestFirst(FilterHistory(ReadByDevice(rows, device_id), filter_by, at))

\* a history handler leaves the store, the clock and the callers as they are
\* except for the tables named
HistoryFrame(changed) ==
    /\ UNCHANGED <<now, devices, inventory, pc, req, previous_weight, result,
                   held, ghost>>
    /\ "weight" \in changed \/ UNCHANGED weightTracking
    /\ "activity" \in changed \/ UNCHANGED activityLog

Charge == calls < MaxCalls /\ calls' = calls + 1

\* POST /device/{device_id}/weight-tracking
CreateWeightTracking(d, w) ==
    /\ Charge
    /\ HistoryFrame({"weight"})
    /\ \E raised \in BOOLEAN :
         /\ weightTracking' = IF raised THEN weightTracking
                              ELSE WeightTrackerCreate(weightTracking, d, w)
         /\ last' = Response("create_weight_tracking", d, w, raised, FALSE,
                        IF raised THEN {"weight_tracker"} ELSE {},
                        IF raised THEN Exception
                        ELSE [DeviceId |-> d, Weight |-> w, DateTime |-> now])

\* POST /device/{device_id}/activity-tracking
CreateActivityLog(d) ==
    /\ Charge
    /\ HistoryFrame({"activity"})
    /\ \E raised \in BOOLEAN :
         /\ activityLog' = IF raised THEN activityLog
                           ELSE ActivityLoggerCreate(activityLog, d, "note")
         /\ last' = Response("create_activity_log", d, NULL, raised, FALSE,
                        IF raised THEN {"activity_logger"} ELSE {},
                        IF raised THEN Exception
                        ELSE [DeviceId |-> d, Event |-> "note",
                              DateTime |-> now])

\* WeightTrackingManager.delete_by_device
DeleteWeightTracking(d) ==
    /\ Charge
    /\ HistoryFrame({"weight"})
    /\ \E raised \in BOOLEAN :
         LET after == DbDeleteWhere(weightTracking, DeleteByDeviceFilter(d))
         IN  /\ weightTracking' = IF raised THEN weightTracking ELSE after
             /\ last' = Response("delete_weight_tracking", d, NULL, raised,
                            FALSE, IF raised THEN {"weight_tracker"} ELSE {},
                            IF raised THEN Exception
                            ELSE [success |-> TRUE,
                                  deleted |-> Len(weightTracking) - Len(after)])

\* ActivityLogManager.delete_by_device
DeleteActivityLog(d) ==
    /\ Charge
    /\ HistoryFrame({"activity"})
    /\ \E raised \in BOOLEAN :
         LET after == DbDeleteWhere(activityLog, DeleteByDeviceFilter(d))
         IN  /\ activityLog' = IF raised THEN activityLog ELSE after
             /\ last' = Response("delete_activity_log", d, NULL, raised,
                            FALSE, IF raised THEN {"activity_logger"} ELSE {},
                            IF raised THEN Exception
                            ELSE [success |-> TRUE,
                                  deleted |-> Len(activityLog) - Len(after)])

\* WeightTrackingManager.clear: DELETE FROM WeightTracking
ClearWeightTracking ==
    /\ Charge
    /\ HistoryFrame({"weight"})
    /\ \E raised \in BOOLEAN :
         /\ weightTracking' = IF raised THEN weightTracking ELSE <<>>
         /\ last' = Response("clear_weight_tracking", NULL, NULL, raised, FALSE,
                        IF raised THEN {"weight_tracker"} ELSE {},
                        IF raised THEN Exception
                        ELSE [success |-> TRUE,
                              message |-> "Weight tracking cleared"])

\* ActivityLogManager.clear: DELETE FROM ActivityLog
ClearActivityLog ==
    /\ Charge
    /\ HistoryFrame({"activity"})
    /\ \E raised \in BOOLEAN :
         /\ activityLog' = IF raised THEN activityLog ELSE <<>>
         /\ last' = Response("clear_activity_log", NULL, NULL, raised, FALSE,
                        IF raised THEN {"activity_logger"} ELSE {},
                        IF raised THEN Exception
                        ELSE [success |-> TRUE,
                              message |-> "Activity log cleared"])

\* GET /device/{device_id}/weight-tracking?filter=
GetWeightTracking(d, f) ==
    /\ HistoryFrame({})
    /\ UNCHANGED calls
    /\ \E raised \in BOOLEAN :
         last' = Response("get_weight_tracking", d, [filter |-> f, at |-> now],
                    raised, FALSE, IF raised THEN {"weight_tracker"} ELSE {},
                    IF raised THEN Exception
                    ELSE [success |-> TRUE,
                          data |-> HistoryGet(weightTracking, d, f, now)])

\* GET /device/{device_id}/activity-tracking?filter=
GetActivityLog(d, f) ==
    /\ HistoryFrame({})
    /\ UNCHANGED calls
    /\ \E raised \in BOOLEAN :
         last' = Response("get_activity_log", d, [filter |-> f, at |-> now],
                    raised, FALSE, IF raised THEN {"activity_logger"} ELSE {},
                    IF raised THEN Exception
                    ELSE [success |-> TRUE,
                          data |-> HistoryGet(activityLog, d, f, now)])

\* get_device, which get_tracking delegates to
GetDevice(d) ==
    /\ HistoryFrame({})
    /\ UNCHANGED calls
    /\ \E raised \in BOOLEAN :
         LET found == DbRead(devices, d)
         IN  last' = Response("get_device", d, NULL, raised, FALSE, {},
                        IF raised THEN Exception
                        ELSE IF found = <<>> THEN DeviceNotFound
                        ELSE Envelope(TRUE, "Device fetched successfully",
                                      Some(found[1])))

\* get_by_device: the inventory rows whose DeviceId is the device's
GetByDevice(d) ==
    /\ HistoryFrame({})
    /\ UNCHANGED calls
    /\ \E raised \in BOOLEAN :
         last' = Response("get_by_device", d, NULL, raised, FALSE, {},
                    IF raised THEN Exception
                    ELSE Envelope(TRUE, "Inventory fetched by device",
                           Some(ReadByDevice(ReadAll(inventory), d))))

\* a day passes
Tick ==
    /\ Charge
    /\ now' = now + 1
    /\ UNCHANGED <<devices, inventory, weightTracking, activityLog, pc, req,
                   previous_weight, result, held, last, ghost>>

\* the history tables hold rows of two devices, written today, a week ago and
\* thirty days ago
InitHistory ==
    /\ devices = InitDevices
    /\ inventory = (1 :> InventoryRow(1, 1, 2, 3, 2, 1)) @@
                   (5 :> InventoryRow(5, 2, 0, 3, 1, 0))
    /\ weightTracking =
          <<[DeviceId |-> 1, Weight |-> 0, DateTime |-> -30],
            [DeviceId |-> 2, Weight |-> 2, DateTime |-> -7],
            [DeviceId |-> 1, Weight |-> 2, DateTime |-> -7],
            [DeviceId |-> 1, Weight |-> 4, DateTime |-> 0]>>
    /\ activityLog =
          <<[DeviceId |-> 1, Event |-> "Device Synched", DateTime |-> -30],
            [DeviceId |-> 1, Event |-> "note", DateTime |-> -7],
            [DeviceId |-> 2, Event |-> "note", DateTime |-> 0],
            [DeviceId |-> 1, Event |-> "Device Synched", DateTime |-> 0]>>
    /\ pc = [c \in Callers |-> "idle"]
    /\ req = [c \in Callers |-> NoReq]
    /\ previous_weight = [c \in Callers |-> NULL]
    /\ result = [c \in Callers |-> Pending]
    /\ held = [c \in Callers |-> {}]
    /\ last = NoCall
    /\ calls = 0
    /\ now = 0
    /\ ghost = [c \in Callers |-> NoGhost]

NextHistory ==
    \/ \E d \in HistoryDeviceIds, w \in Weights : CreateWeightTracking(d, w)
    \/ \E d \in HistoryDeviceIds : CreateActivityLog(d)
    \/ \E d \in HistoryDeviceIds : DeleteWeightTracking(d)
    \/ \E d \in HistoryDeviceIds : DeleteActivityLog(d)
    \/ ClearWeightTracking
    \/ ClearActivityLog
    \/ \E d \in HistoryDeviceIds, f \in FilterNames : GetWeightTracking(d, f)
    \/ \E d \in HistoryDeviceIds, f \in FilterNames : GetActivityLog(d, f)
    \/ \E d \in HandlerDeviceIds : GetDevice(d)
    \/ \E d \in HandlerDeviceIds : GetByDevice(d)
    \/ GetAllDevices
    \/ \E i \in ReqInventoryIds : GetInventory(i)
    \/ GetAllInventory
    \/ \E d \in HandlerDeviceIds : UpdateDeviceFields("update_battery", d)
    \/ \E i \in ReqInventoryIds : AssignDevice(i, 1)
    \/ Tick

\* the history routes and every read, with the clock advancing
SpecHistory == InitHistory /\ [][NextHistory]_vars

Next == UpdateDeviceWeight

\* weight updates of two concurrent callers
Spec == Init /\ [][Next]_vars

(******************************** properties *******************************)

Succeeded(c) == pc[c] = "done" /\ result[c].success

\* the step on which caller c's call returns success
Returns(c) == pc[c] = "recalc" /\ pc'[c] = "done" /\ result'[c].success

\* C1: after a successful update_device_weight call that no other call
\* overlapped, the device has Weight = new_weight and LastReading = the Weight
\* it held immediately before the call.
C1_LastReadingTrails ==
    \A c \in Callers :
        (Succeeded(c) /\ ~ghost[c].overlapped) =>
            /\ devices[req[c].device_id].Weight = req[c].new_weight
            /\ devices[req[c].device_id].LastReading = ghost[c].w0

\* two calls w1 then w2 on one device have run: LastReading = w1, Weight = w2
C1_Witness ==
    \E c \in Callers :
        /\ Succeeded(c) /\ ~ghost[c].overlapped /\ calls = 2
        /\ Len(weightTracking) = 2
        /\ weightTracking[1].DeviceId = req[c].device_id
        /\ weightTracking[2].DeviceId = req[c].device_id
        /\ weightTracking[1].Weight # weightTracking[2].Weight
        /\ devices[req[c].device_id].LastReading = weightTracking[1].Weight
        /\ devices[req[c].device_id].Weight = weightTracking[2].Weight

\* C2 (as claimed): every successful update_device_weight call appends exactly
\* one WeightTracking row and at least one ActivityLog row for its device, also
\* when the activity-log write fails.
C2_OneHistoryRowAndALogRow ==
    \A c \in Callers :
        Succeeded(c) => ghost[c].wtRows = 1 /\ ghost[c].alRows >= 1

\* C2 (amended): every successful update_device_weight call appends exactly one
\* WeightTracking row for its device, and one ActivityLog row unless the
\* activity-log write failed, in which case it appends none.
C2_OneHistoryRowLogUnlessFailed ==
    \A c \in Callers :
        Succeeded(c) =>
            /\ ghost[c].wtRows = 1
            /\ ghost[c].alRows = IF ghost[c].logFailed THEN 0 ELSE 1

\* a call succeeded although its activity-log write failed
C2_Witness ==
    \E c \in Callers :
        /\ Succeeded(c) /\ ghost[c].logFailed
        /\ ghost[c].wtRows = 1 /\ ghost[c].alRows = 0

\* C3: the Stock written by the recalculation of a weight update is never
\* negative: for every linked convertible row it is previousStock -
\* unitsConsumed, or 0 when the consumption exceeds previousStock.
C3_StockNeverNegative ==
    [][\A c \in Callers : Returns(c) =>
        \A i \in DOMAIN inventory :
            /\ inventory'[i].Stock >= 0
            /\ (inventory[i].DeviceId = req[c].device_id
                    /\ inventory[i].UnitWeight > 0) =>
                 LET dev == devices[req[c].device_id]
                     units == (dev.LastReading - dev.Weight)
                                  \div inventory[i].UnitWeight
                 IN  inventory'[i].Stock =
                        IF units > inventory[i].Stock THEN 0
                        ELSE inventory[i].Stock - units]_vars

\* one update consumed 4 units of a row that held 3: its Stock is 0
C3_Witness ==
    \E c \in Callers : \E i \in DOMAIN inventory :
        /\ Succeeded(c) /\ calls = 1
        /\ inventory[i].DeviceId = req[c].device_id
        /\ inventory[i].Consumption > 3
        /\ inventory[i].Stock = 0

\* C4: after a stock recalculation the row's Status follows from its new Stock:
\* Stock <= StockOut gives OutOfStock, otherwise Stock <= Threshold gives
\* LowStock, otherwise Normal.
C4_StatusFromStock ==
    [][\A c \in Callers : Returns(c) =>
        \A i \in DOMAIN inventory :
            (inventory[i].DeviceId = req[c].device_id
                /\ inventory[i].UnitWeight > 0) =>
              LET row == inventory'[i]
              IN  /\ row.Stock <= row.StockOut => row.Status = "OutOfStock"
                  /\ (row.Stock > row.StockOut /\ row.Stock <= row.Threshold)
                        => row.Status = "LowStock"
                  /\ (row.Stock > row.StockOut /\ row.Stock > row.Threshold)
                        => row.Status = "Normal"]_vars

\* the ties: Stock = Threshold is LowStock, Stock = StockOut is OutOfStock, and
\* so is Stock = StockOut = Threshold
C4_Witness ==
    \E c \in Callers : \E i, j, k \in DOMAIN inventory :
        /\ Succeeded(c) /\ calls = 1
        /\ {inventory[x].DeviceId : x \in {i, j, k}} = {req[c].device_id}
        /\ inventory[i].Stock = inventory[i].Threshold
        /\ inventory[i].Stock > inventory[i].StockOut
        /\ inventory[i].Status = "LowStock"
        /\ inventory[j].Stock = inventory[j].StockOut
        /\ inventory[j].Stock < inventory[j].Threshold
        /\ inventory[j].Status = "OutOfStock"
        /\ inventory[k].Stock = inventory[k].StockOut
        /\ inventory[k].Stock = inventory[k].Threshold
        /\ inventory[k].Status = "OutOfStock"
        /\ inventory[k].Consumption > 0

NotConvertible(row) == row.UnitWeight = NULL \/ row.UnitWeight = 0

\* C5: when a row linked to the device has UnitWeight absent or zero, the
\* recalculation leaves that row's Stock, Consumption and Status unchanged and
\* the call still reports success with the device-field change.
C5_ZeroUnitWeightSkipped ==
    [][\A c \in Callers :
        (pc[c] = "recalc" /\ pc'[c] = "done" /\ ghost'[c].failed = "none") =>
            \A i \in DOMAIN inventory :
                (inventory[i].DeviceId = req[c].device_id
                    /\ NotConvertible(inventory[i])) =>
                  /\ inventory'[i] = inventory[i]
                  /\ result'[c].success
                  /\ result'[c].data =
                        Some([DeviceId |-> req[c].device_id,
                              LastReading |-> previous_weight[c],
                              Weight |-> req[c].new_weight])
                  /\ ~ghost'[c].overlapped =>
                        /\ devices'[req[c].device_id].Weight = req[c].new_weight
                        /\ devices'[req[c].device_id].LastReading = ghost[c].w0]_vars

\* a weight change of a device whose row has UnitWeight 0 reported success
C5_Witness ==
    \E c \in Callers : \E i \in DOMAIN inventory :
        /\ Succeeded(c) /\ calls = 1
        /\ inventory[i].DeviceId = req[c].device_id
        /\ inventory[i].UnitWeight = 0
        /\ inventory[i].Stock = 3 /\ inventory[i].Consumption = 0
        /\ inventory[i].Status = "Normal"
        /\ devices[req[c].device_id].Weight = req[c].new_weight
        /\ devices[req[c].device_id].LastReading # req[c].new_weight

\* C6: nothing in update_device_weight guards the read-then-write sequence: the
\* device write stores LastReading = the previous_weight the call read and
\* Weight = new_weight whatever the row holds by then, so two interleaved calls
\* can both succeed with a lost update (C6_Witness).
C6_WriteIsUnguarded ==
    [][\A c \in Callers :
        (pc[c] = "write" /\ pc'[c] = "history") =>
            /\ devices'[req[c].device_id].Weight = req[c].new_weight
            /\ devices'[req[c].device_id].LastReading = previous_weight[c]]_vars

\* both calls succeeded, c wrote last over the Weight x had written, and
\* LastReading is not that Weight
C6_Witness ==
    \E c, x \in Callers :
        /\ c # x /\ Succeeded(c) /\ Succeeded(x)
        /\ req[c].device_id = req[x].device_id
        /\ req[x].new_weight # ghost[x].w0
        /\ ghost[c].replaced = req[x].new_weight
        /\ devices[req[c].device_id].Weight = req[c].new_weight
        /\ devices[req[c].device_id].LastReading # req[x].new_weight

\* C7: when a call has ended, normally or with an error, no connection it
\* acquired is left open.
C7_ConnectionsReleased ==
    \A c \in Callers : pc[c] = "done" => held[c] = {}

\* the response update_device_weight owes for what happened to its store calls,
\* the activity-log write left aside
WeightResultFor(c) ==
    IF ghost[c].failed # "none" THEN WeightError
    ELSE IF ghost[c].w0 = NULL THEN DeviceNotFound
    ELSE WeightResponse(req[c].device_id, previous_weight[c], req[c].new_weight)

\* C8: a failing activity-log write never fails the primary operation: the log
\* step of update_device_weight goes on to the stock recalculation whether or
\* not the write raised and changes no device, history or inventory row; the
\* call's response depends only on its other store calls; and update_battery,
\* update_location, update_tracking and sync_device return the response, and
\* leave the device fields, that the update alone decides.
C8_LogFailureNeverFails ==
    [][/\ \A c \in Callers :
            /\ (pc[c] = "log" /\ pc'[c] # "log") =>
                  /\ pc'[c] = "recalc"
                  /\ result'[c] = result[c]
                  /\ devices' = devices
                  /\ inventory' = inventory
                  /\ weightTracking' = weightTracking
            /\ pc'[c] = "done" => result'[c] = WeightResultFor(c)'
       /\ (LogsActivity(last'.op) /\ ~last'.failed) =>
            IF last'.id \in DOMAIN devices'
            THEN /\ last'.result = UpdateDeviceResult(1)
                 /\ \A f \in DOMAIN DevicePayload[last'.op] :
                        devices'[last'.id][f] = DevicePayload[last'.op][f]
            ELSE last'.result = DeviceNotFound /\ devices' = devices
       /\ last'.op = "sync_device" =>
            /\ last'.result.success
            /\ last'.result.data = Some([DeviceId |-> last'.id])]_vars

\* update_battery reported success and wrote Battery although its activity-log
\* write raised
C8_Witness ==
    /\ last.op = "update_battery" /\ last.logFailed
    /\ last.result = UpdateDeviceResult(1)
    /\ devices[last.id].Battery = 20
    /\ activityLog = <<>>

StoredWith(status) == {d \in DOMAIN devices : devices[d].Status = status}

\* C9: get_all_devices lists every stored device once and counts, for each of
\* Online, Offline, Unlinked and LowBattery, the stored devices with exactly
\* that Status; a device with another Status is listed and not counted.
C9_StatusCounts ==
    (last.op = "get_all_devices" /\ last.result.success) =>
        LET data == last.result.data[1]
        IN  /\ Len(data.Devices) = Cardinality(DOMAIN devices)
            /\ \A d \in DOMAIN devices :
                   \E k \in 1..Len(data.Devices) : data.Devices[k] = devices[d]
            /\ data.Online = Cardinality(StoredWith("Online"))
            /\ data.Offline = Cardinality(StoredWith("Offline"))
            /\ data.Unlinked = Cardinality(StoredWith("Unlinked"))
            /\ data.LowBattery = Cardinality(StoredWith("LowBattery"))
            /\ data.Online + data.Offline + data.Unlinked + data.LowBattery
                   <= Len(data.Devices)

\* three devices listed, one Online, one Offline, one with an unknown Status
C9_Witness ==
    /\ last.op = "get_all_devices" /\ last.result.success
    /\ Len(last.result.data[1].Devices) = 3
    /\ last.result.data[1].Online = 1
    /\ last.result.data[1].Offline = 1
    /\ last.result.data[1].Unlinked = 0
    /\ last.result.data[1].LowBattery = 0
    /\ \E d \in DOMAIN devices : devices[d].Status \notin DeviceStatuses

\* C10: assign_device(i, d) leaves DeviceId = d on the row; get_inventory(i)
\* embeds the current Weight, LastReading and LocationName of the row's device
\* when that device exists; once DeviceId is cleared it embeds no device.
C10_InventoryEmbedsLiveDevice ==
    /\ (last.op = "assign_device" /\ last.result.success) =>
            inventory[last.id].DeviceId = last.arg
    /\ (last.op = "update_inventory" /\ last.result.success) =>
            inventory[last.id].DeviceId = NULL
    /\ (last.op = "get_inventory" /\ last.result.success) =>
            LET row == inventory[last.id]
                data == last.result.data[1]
            IN  /\ row.DeviceId \in DOMAIN devices =>
                    data.Device =
                        <<[DeviceId |-> row.DeviceId,
                           DeviceName |-> devices[row.DeviceId].DeviceName,
                           LastReading |-> devices[row.DeviceId].LastReading,
                           Weight |-> devices[row.DeviceId].Weight,
                           LocationName |->
                               devices[row.DeviceId].LocationName]>>
                /\ row.DeviceId = NULL => data.Device = <<>>

\* row 5, assigned to device 1, is fetched after a weight update of device 1
C10_Witness ==
    /\ last.op = "get_inventory" /\ last.result.success /\ last.id = 5
    /\ inventory[5].DeviceId = 1
    /\ CountFor(weightTracking, 1) = 1
    /\ devices[1].Weight # devices[1].LastReading
    /\ last.result.data[1].Device # <<>>
    /\ last.result.data[1].Device[1].Weight = devices[1].Weight
    /\ last.result.data[1].Device[1].LastReading = devices[1].LastReading

\* the call failed at a step after the device write
FailedAfterWrite(c) ==
    pc[c] = "done" /\ ghost[c].failed \in {"history", "recalc"}

\* C14: the writes of update_device_weight are independent: when a step after
\* the device write raises, the call returns the failure envelope (success
\* false, nothing propagates) and what was written before stays written: the
\* device keeps Weight = new_weight and LastReading = the previous weight, and
\* a WeightTracking row appended before a failing stock recalculation stays.
C14_NoRollback ==
    \A c \in Callers :
        FailedAfterWrite(c) =>
            /\ result[c] = [success |-> FALSE,
                            message |-> "Error updating device weight",
                            data |-> None]
            /\ ghost[c].wtRows = IF ghost[c].failed = "recalc" THEN 1 ELSE 0
            /\ ~ghost[c].overlapped =>
                  /\ devices[req[c].device_id].Weight = req[c].new_weight
                  /\ devices[req[c].device_id].LastReading = ghost[c].w0

\* the WeightTracking append raised after a write that changed the Weight: the
\* call failed, the device holds the new Weight and no history row exists
C14_Witness ==
    \E c \in Callers :
        /\ FailedAfterWrite(c) /\ ghost[c].failed = "history"
        /\ ~ghost[c].overlapped /\ ~result[c].success
        /\ req[c].new_weight # ghost[c].w0
        /\ devices[req[c].device_id].Weight = req[c].new_weight
        /\ weightTracking = <<>>

\* C16: update_battery, update_location and update_tracking append an
\* ActivityLog row only when the partial update they delegate to reported
\* success; for a device that does not exist they return the not-found result,
\* append no ActivityLog row and change no device.
C16_LogOnlyOnSuccess ==
    [][(LogsActivity(last'.op) /\ calls' = calls + 1) =>
          /\ activityLog' # activityLog =>
                last'.result.success /\ last'.id \in DOMAIN devices
          /\ (last'.id \notin DOMAIN devices /\ ~last'.failed) =>
                /\ last'.result = [success |-> FALSE,
                                   message |-> "Device not found",
                                   data |-> None]
                /\ activityLog' = activityLog
                /\ devices' = devices]_vars

\* update_location of device 1 succeeded and left its entry; update_battery of
\* the missing device 9 then returned not found and left nothing
C16_Witness ==
    /\ last.op = "update_battery" /\ last.id = 9 /\ ~last.failed
    /\ ~last.result.success
    /\ Len(activityLog) = 1
    /\ activityLog[1].DeviceId = 1 /\ activityLog[1].Event = "update_location"
    /\ devices[1].Latitude = 1 /\ devices[1].Battery = 100

\* the step is the stock recalculation of an update_device_weight call
EngineStep == \E c \in Callers : pc[c] = "recalc" /\ pc'[c] = "done"

\* the step is a call of handler op
Handles(op) == last'.op = op /\ calls' = calls + 1

\* update_stock writes Stock alone and assign_device DeviceId alone
WrapperWritesOneField ==
    /\ Handles("update_stock") =>
          \A i \in DOMAIN inventory :
              inventory'[i] = inventory[i] \/
              inventory'[i] = [inventory[i] EXCEPT !.Stock = last'.arg]
    /\ Handles("assign_device") =>
          \A i \in DOMAIN inventory :
              inventory'[i] = inventory[i] \/
              inventory'[i] = [inventory[i] EXCEPT !.DeviceId = last'.arg]

\* C15 (as claimed): update_stock changes only Stock and assign_device only
\* DeviceId, never the Status, and the Status of an inventory row changes only
\* on the stock recalculation of a weight update.
C15_StatusOnlyByEngine ==
    [][/\ WrapperWritesOneField
       /\ \A i \in DOMAIN inventory :
             inventory'[i].Status # inventory[i].Status => EngineStep]_vars

\* C15 (amended): update_stock changes only Stock and assign_device only
\* DeviceId, never the Status; the Status of an inventory row changes only on
\* the stock recalculation of a weight update or when a caller of
\* update_inventory supplies a Status.
C15_StatusByEngineOrCaller ==
    [][/\ WrapperWritesOneField
       /\ \A i \in DOMAIN inventory :
             inventory'[i].Status # inventory[i].Status =>
                 EngineStep \/ Handles("update_inventory(Status)")]_vars

\* update_stock took row 5 to Stock 0, at its StockOut and under its Threshold,
\* and the row is still Normal
C15_Witness ==
    /\ last.op = "update_stock" /\ last.id = 5 /\ last.result.success
    /\ inventory[5].Stock = 0
    /\ inventory[5].Stock <= inventory[5].StockOut
    /\ inventory[5].Stock <= inventory[5].Threshold
    /\ inventory[5].Status = "Normal"

\* the row's DeviceId names no device in the Device table
Dangling(row) == row.DeviceId \notin DOMAIN devices

\* C11: an inventory row whose DeviceId names no existing device (delete_device
\* leaves the inventory rows as they are) never makes a read fail:
\* get_inventory and get_all_inventory return success with Device = null for
\* that row, and get_all_inventory counts in LinkedDevices the rows whose
\* device exists and no other.
C11_DanglingDeviceReadsNull ==
    /\ (/\ last.op = "get_inventory" /\ ~last.failed
        /\ last.id \in DOMAIN inventory
        /\ Dangling(inventory[last.id])) =>
            /\ last.result.success
            /\ last.result.data[1].InventoryId = last.id
            /\ last.result.data[1].Device = None
    /\ (last.op = "get_all_inventory" /\ ~last.failed) =>
            /\ last.result.success
            /\ last.result.data[1].TotalItems = Cardinality(DOMAIN inventory)
            /\ last.result.data[1].LinkedDevices =
                  Cardinality({i \in DOMAIN inventory : ~Dangling(inventory[i])})
            /\ \A k \in DOMAIN last.result.data[1].InventoryData :
                  LET e == last.result.data[1].InventoryData[k]
                  IN  Dangling(inventory[e.InventoryId]) => e.Device = None

\* device 1 was deleted under the four rows that name it: get_all_inventory
\* lists the five rows, those four with Device = null, and counts one link
C11_Witness ==
    /\ last.op = "get_all_inventory" /\ last.result.success
    /\ 1 \notin DOMAIN devices
    /\ \A i \in 1..4 : inventory[i].DeviceId = 1
    /\ last.result.data[1].TotalItems = 5
    /\ last.result.data[1].LinkedDevices = 1
    /\ \A k \in 1..4 : last.result.data[1].InventoryData[k].Device = None
    /\ last.result.data[1].InventoryData[5].Device # None

\* the step is a call of handler op whose store call did not raise
Completes(op) == Handles(op) /\ now' = now /\ ~last'.failed

\* the rows of a history table that do not belong to device d, in stored order
RowsOfOthers(rows, d) == SelectSeq(rows, LAMBDA r : r.DeviceId # d)

\* C12: delete_by_device(d) of WeightTrackingManager removes exactly the
\* WeightTracking rows whose DeviceId is d and leaves the rows of every other
\* device as they are; clear() removes the rows of all devices; the same holds
\* of ActivityLogManager and the ActivityLog table. Neither touches any other
\* table.
C12_DeleteByDeviceFrame ==
    [][/\ Completes("delete_weight_tracking") =>
             /\ weightTracking' = RowsOfOthers(weightTracking, last'.id)
             /\ UNCHANGED <<activityLog, devices, inventory>>
       /\ Completes("delete_activity_log") =>
             /\ activityLog' = RowsOfOthers(activityLog, last'.id)
             /\ UNCHANGED <<weightTracking, devices, inventory>>
       /\ Completes("clear_weight_tracking") =>
             /\ weightTracking' = <<>>
             /\ UNCHANGED <<activityLog, devices, inventory>>
       /\ Completes("clear_activity_log") =>
             /\ activityLog' = <<>>
             /\ UNCHANGED <<weightTracking, devices, inventory>>]_vars

\* delete_by_device(1) took the three WeightTracking rows of device 1 and left
\* the row of device 2; clear() then emptied the ActivityLog, which held rows
\* of both devices
C12_Witness ==
    /\ last.op = "clear_activity_log" /\ ~last.failed
    /\ activityLog = <<>>
    /\ weightTracking = <<[DeviceId |-> 2, Weight |-> 2, DateTime |-> -7]>>

\* the listing and detail reads
GetOps == {"get_device", "get_all_devices", "get_inventory",
           "get_all_inventory", "get_by_device", "get_weight_tracking",
           "get_activity_log"}

HistoryGetOps == {"get_weight_tracking", "get_activity_log"}

\* the latest two calls were the same read with the same arguments, neither
\* failed and no write came between them
ReadTwice ==
    /\ last'.op \in GetOps /\ last.op = last'.op /\ last.id = last'.id
    /\ last.op \in HistoryGetOps => last.arg.filter = last'.arg.filter
    /\ ~last.failed /\ ~last'.failed

\* no row of the device entered or left the filter's trailing window between
\* the two reads
SameWindow ==
    (last.op \in HistoryGetOps /\ last.arg.filter \in DOMAIN FilterDays) =>
        LET rows  == IF last.op = "get_weight_tracking" THEN weightTracking
                     ELSE activityLog
            delta == FilterDays[last.arg.filter]
        IN  \A k \in DOMAIN rows :
                rows[k].DeviceId = last.id =>
                    (rows[k].DateTime >= last.arg.at - delta
                        <=> rows[k].DateTime >= last'.arg.at - delta)

\* C13 (as claimed): a GET on a listing or detail endpoint changes no stored
\* state, and two such GETs with no write between them return identical data,
\* history reads with a day / week / month filter included.
C13_GetTwiceIdentical ==
    [][/\ last'.op \in GetOps /\ calls' = calls =>
             UNCHANGED <<devices, inventory, weightTracking, activityLog>>
       /\ ReadTwice => last'.result = last.result]_vars

\* C13 (amended): a GET on a listing or detail endpoint changes no stored
\* state, and two such GETs with no write between them return identical data,
\* provided that for a history read with a day / week / month filter no row
\* of the device left the filter's trailing window, which is measured from
\* the time of each call.
C13_GetTwiceIdenticalInWindow ==
    [][/\ last'.op \in GetOps /\ calls' = calls =>
             UNCHANGED <<devices, inventory, weightTracking, activityLog>>
       /\ (ReadTwice /\ SameWindow) => last'.result = last.result]_vars

\* the day-filtered WeightTracking history of device 1 was read a day after
\* its newest row was written: the row is still inside the window and is the
\* whole answer, as it was the day before
C13_Witness ==
    /\ last.op = "get_weight_tracking" /\ last.id = 1 /\ ~last.failed
    /\ last.arg.filter = "day" /\ last.arg.at = 1
    /\ Len(ReadByDevice(weightTracking, 1)) = 3
    /\ last.result.data = <<[DeviceId |-> 1, Weight |-> 4, DateTime |-> 0]>>
    /\ last.result.data = HistoryGet(weightTracking, 1, "day", 0)

====
